---- MODULE Spec2Model ----
(***************************************************************************)
(* Model of mibi_bin_tools/bin_files.py: location of bin/json pairs,       *)
(* resolution of the per-fov extraction metadata (panel, time-of-flight    *)
(* ranges, intensity flags), condensation and writing of the extracted     *)
(* image stacks, and the diagnostic accessors.                             *)
(*                                                                         *)
(* Conventions.  A Python list, tuple, pandas column or dict (dicts keep   *)
(* insertion order) is a sequence.  A file name "fov1.bin" is the record   *)
(* [base |-> "fov1", ext |-> "bin"].  None is a record with given = FALSE. *)
(* A call that raises returns [raised |-> TRUE, exc |-> <exception>].      *)
(* Masses, calibration parameters and time resolutions are integers (a     *)
(* time resolution is a fraction num/den); square roots, floor and ceil    *)
(* are computed exactly on them.                                           *)
(***************************************************************************)
EXTENDS Integers, Sequences, FiniteSets, TLC

VARIABLES
    pc,        \* position of the running call
    dataDir,   \* set of files in data_dir
    dirOrder,  \* order in which the directory enumerates base names
    jsonMeta,  \* base name -> content of <base>.json
    binData,   \* base name -> pulse events of <base>.bin
    call,      \* the call being run: its function and arguments
    loc,       \* local variables of the running call
    ret,       \* what the call returned or raised
    outTree    \* paths (directories and files) under out_dir

vars == <<pc, dataDir, dirOrder, jsonMeta, binData, call, loc, ret, outTree>>

-----------------------------------------------------------------------------
(* Bounds *)

MaxInclude == 2      \* longest include_fovs list
MaxNames == 2        \* longest channel filter / intensity name list
MaxMass == 4         \* largest mass of a directly given mass window
MaxHist == 3         \* number of bins of an intensity histogram
MaxEvents == 3       \* most pulse events in a bin file of the diagnostic calls

-----------------------------------------------------------------------------
(* Python built-ins *)

Range(s) == {s[i] : i \in DOMAIN s}

BSeq(S, n) == UNION {[1..k -> S] : k \in 0..n}

RECURSIVE SelectIdx(_, _, _)
\* [s[i] for i in order if Keep(i)], from position i on
SelectIdx(s, Keep(_), i) ==
    IF i > Len(s) THEN <<>>
    ELSE (IF Keep(i) THEN <<s[i]>> ELSE <<>>) \o SelectIdx(s, Keep, i + 1)

RECURSIVE DictKeys(_)
\* keys of a dict built by inserting s[1], s[2], ... : first insertion fixes the place
DictKeys(s) ==
    IF s = <<>> THEN <<>>
    ELSE LET init == DictKeys(SubSeq(s, 1, Len(s) - 1))
             x == s[Len(s)]
         IN IF x \in Range(init) THEN init ELSE Append(init, x)

None == [given |-> FALSE]
Some(v) == [given |-> TRUE, val |-> v]

Raise(e) == [raised |-> TRUE, exc |-> e]
Return(v) == [raised |-> FALSE, val |-> v]

-----------------------------------------------------------------------------
(* io_utils *)

File(b, e) == [base |-> b, ext |-> e]

\* io_utils.list_files(data_dir, substrs=['.' + e])
list_files(dir, order, e) ==
    LET names == [i \in DOMAIN order |-> File(order[i], e)]
    IN SelectIdx(names, LAMBDA i : names[i] \in dir, 1)

\* io_utils.extract_delimited_names(names, delimiter='.')
extract_delimited_names(names) == [i \in DOMAIN names |-> names[i].base]

-----------------------------------------------------------------------------
(* _find_bin_files *)

FovEntry(fov_name) ==
    [name |-> fov_name, bin |-> File(fov_name, "bin"), json |-> File(fov_name, "json")]

\* mutant: the json file is not looked for
find_bin_files_no_json(dir, order, include_fovs) ==
    LET fov_names == extract_delimited_names(list_files(dir, order, "bin"))
        keys == IF include_fovs.given
                THEN DictKeys(SelectIdx(include_fovs.val,
                         LAMBDA i : include_fovs.val[i] \in Range(fov_names), 1))
                ELSE fov_names
    IN IF Len(keys) = 0 THEN Raise("FileNotFoundError")
       ELSE Return([i \in DOMAIN keys |-> FovEntry(keys[i])])

\* mutant: an empty result is returned, not raised
find_bin_files_no_raise(dir, order, include_fovs) ==
    LET bin_files == list_files(dir, order, "bin")
        json_files == list_files(dir, order, "json")
        fov_names == extract_delimited_names(bin_files)
        all == SelectIdx(fov_names,
                   LAMBDA i : File(fov_names[i], "json") \in Range(json_files), 1)
        keys == IF include_fovs.given
                THEN DictKeys(SelectIdx(include_fovs.val,
                         LAMBDA i : include_fovs.val[i] \in Range(all), 1))
                ELSE all
    IN Return([i \in DOMAIN keys |-> FovEntry(keys[i])])

\* mutant: include_fovs only filters, the directory order is kept
find_bin_files_dir_order(dir, order, include_fovs) ==
    LET bin_files == list_files(dir, order, "bin")
        json_files == list_files(dir, order, "json")
        fov_names == extract_delimited_names(bin_files)
        all == SelectIdx(fov_names,
                   LAMBDA i : File(fov_names[i], "json") \in Range(json_files), 1)
        keys == IF include_fovs.given
                THEN SelectIdx(all, LAMBDA i : all[i] \in Range(include_fovs.val), 1)
                ELSE all
    IN IF Len(keys) = 0 THEN Raise("FileNotFoundError")
       ELSE Return([i \in DOMAIN keys |-> FovEntry(keys[i])])

_find_bin_files(dir, order, include_fovs) ==
    LET bin_files == list_files(dir, order, "bin")
        json_files == list_files(dir, order, "json")
        fov_names == extract_delimited_names(bin_files)
        all == SelectIdx(fov_names,
                   LAMBDA i : File(fov_names[i], "json") \in Range(json_files), 1)
        keys == IF include_fovs.given
                THEN DictKeys(SelectIdx(include_fovs.val,
                         LAMBDA i : include_fovs.val[i] \in Range(all), 1))
                ELSE all
    IN IF Len(keys) = 0 THEN Raise("FileNotFoundError")
       ELSE Return([i \in DOMAIN keys |-> FovEntry(keys[i])])

-----------------------------------------------------------------------------
(* numpy on the reals the model needs *)

\* floor(sqrt(x)) and ceil(sqrt(x)) of a natural number
ISqrtFloor(x) == CHOOSE s \in 0..x : s * s <= x /\ (s + 1) * (s + 1) > x
ISqrtCeil(x) == CHOOSE s \in 0..x : s * s >= x /\ (s = 0 \/ (s - 1) * (s - 1) < x)

FloorDiv(a, n) == a \div n
CeilDiv(a, n) == -((-a) \div n)

\* The real number (gain * sqrt(mass) + offset) / (num/den), kept exactly
Real(mass, offset, gain, time_res) ==
    [mass |-> mass, offset |-> offset, gain |-> gain, time_res |-> time_res]

\* np.floor of that real number
np_floor(x) ==
    LET G == x.gain * x.time_res.den
        root == IF G >= 0 THEN ISqrtFloor(G * G * x.mass) ELSE -ISqrtCeil(G * G * x.mass)
    IN FloorDiv(root + x.offset * x.time_res.den, x.time_res.num)

\* np.ceil of that real number
np_ceil(x) ==
    LET G == x.gain * x.time_res.den
        root == IF G >= 0 THEN ISqrtCeil(G * G * x.mass) ELSE -ISqrtFloor(G * G * x.mass)
    IN CeilDiv(root + x.offset * x.time_res.den, x.time_res.num)

UInt16Size == 65536

\* .astype(np.uint16) of an integral value
astype_uint16(n) == n % UInt16Size

-----------------------------------------------------------------------------
(* _mass2tof, _set_tof_ranges *)

SetKey(fov, k, v) == (k :> v) @@ fov

_mass2tof(masses_arr, mass_offset, mass_gain, time_res) ==
    [i \in DOMAIN masses_arr |-> Real(masses_arr[i], mass_offset, mass_gain, time_res)]

_set_tof_ranges(fov, higher, lower, time_res) ==
    LET up == _mass2tof(higher, fov.mass_offset, fov.mass_gain, time_res)
        lo == _mass2tof(lower, fov.mass_offset, fov.mass_gain, time_res)
    IN SetKey(SetKey(fov, "upper_tof_range",
                     [i \in DOMAIN up |-> astype_uint16(np_ceil(up[i]))]),
              "lower_tof_range",
              [i \in DOMAIN lo |-> astype_uint16(np_floor(lo[i]))])

-----------------------------------------------------------------------------
(* _parse_global_panel, _parse_df_panel, _parse_intensities, _fill_fov_metadata *)

InChannels(channels, target) == ~channels.given \/ target \in Range(channels.val)

\* mutant: a missing panel table counts as an empty one
parse_global_panel_default_empty(json_metadata, fov, panel, time_res, channels) ==
    LET rows == IF json_metadata.panel.given THEN json_metadata.panel.val ELSE <<>>
        kept == SelectIdx(rows, LAMBDA i : InChannels(channels, rows[i].target), 1)
        masses == [i \in DOMAIN kept |-> kept[i].mass]
        targets == [i \in DOMAIN kept |-> kept[i].target]
    IN Return(_set_tof_ranges(
                 SetKey(SetKey(fov, "masses", masses), "targets", targets),
                 [i \in DOMAIN masses |-> masses[i] + panel.hi],
                 [i \in DOMAIN masses |-> masses[i] + panel.lo], time_res))

_parse_global_panel(json_metadata, fov, panel, time_res, channels) ==
    IF ~json_metadata.panel.given THEN Raise("KeyError")
    ELSE
    LET rows == json_metadata.panel.val
        kept == SelectIdx(rows, LAMBDA i : InChannels(channels, rows[i].target), 1)
        masses == [i \in DOMAIN kept |-> kept[i].mass]
        targets == [i \in DOMAIN kept |-> kept[i].target]
    IN \* zip(*[]) yields nothing to unpack into the two names
       IF kept = <<>> THEN Raise("ValueError")
       ELSE Return(_set_tof_ranges(
                 SetKey(SetKey(fov, "masses", masses), "targets", targets),
                 [i \in DOMAIN masses |-> masses[i] + panel.hi],
                 [i \in DOMAIN masses |-> masses[i] + panel.lo], time_res))

\* panel[col] raises KeyError when the table has no such column
HasCol(panel, col) == col \in panel.cols

\* mutant: the Mass and Start columns are never read
parse_df_panel_unread_columns(fov, panel, time_res, channels) ==
    IF ~HasCol(panel, "Target") THEN Raise("KeyError")
    ELSE
    LET rows == SelectIdx(panel.rows,
                    LAMBDA i : InChannels(channels, panel.rows[i].Target), 1)
    IN IF ~HasCol(panel, "Stop") THEN Raise("KeyError")
       ELSE Return(_set_tof_ranges(
                SetKey(SetKey(fov, "masses", [i \in DOMAIN rows |-> rows[i].Mass]),
                       "targets", [i \in DOMAIN rows |-> rows[i].Target]),
                [i \in DOMAIN rows |-> rows[i].Stop],
                [i \in DOMAIN rows |-> rows[i].Start], time_res))

_parse_df_panel(fov, panel, time_res, channels) ==
    IF ~HasCol(panel, "Target") THEN Raise("KeyError")
    ELSE
    LET rows == SelectIdx(panel.rows,
                    LAMBDA i : InChannels(channels, panel.rows[i].Target), 1)
    IN IF ~HasCol(panel, "Mass") THEN Raise("KeyError")
       ELSE IF ~HasCol(panel, "Stop") \/ ~HasCol(panel, "Start") THEN Raise("KeyError")
       ELSE Return(_set_tof_ranges(
                SetKey(SetKey(fov, "masses", [i \in DOMAIN rows |-> rows[i].Mass]),
                       "targets", [i \in DOMAIN rows |-> rows[i].Target]),
                [i \in DOMAIN rows |-> rows[i].Stop],
                [i \in DOMAIN rows |-> rows[i].Start], time_res))

IsList(intensities) == intensities.type = "list"
IsTrue(intensities) == intensities.type = "bool" /\ intensities.flag

\* mutant: a name list flags every channel as soon as one name is given
parse_intensities_list_as_all(fov, intensities) ==
    LET targets == fov.targets
    IN SetKey(fov, "calc_intensity",
              [i \in DOMAIN targets |->
                  IF IsList(intensities) THEN intensities.names # <<>>
                  ELSE IsTrue(intensities)])

_parse_intensities(fov, intensities) ==
    LET targets == fov.targets
        filtered_intensities ==
            IF IsList(intensities)
            THEN Some(SelectIdx(targets, LAMBDA i : targets[i] \in Range(intensities.names), 1))
            ELSE IF IsTrue(intensities) THEN Some(targets)
            ELSE None
    IN IF filtered_intensities.given
       THEN SetKey(fov, "calc_intensity",
                   [i \in DOMAIN targets |-> targets[i] \in Range(filtered_intensities.val)])
       ELSE SetKey(fov, "calc_intensity", [i \in DOMAIN targets |-> FALSE])

_fill_fov_metadata(meta, fov, panel, intensities, time_res, channels) ==
    LET data == meta[fov.json.base]
        fov1 == SetKey(SetKey(fov, "mass_gain", data.mass_gain),
                       "mass_offset", data.mass_offset)
        parsed == IF panel.type = "tuple"
                  THEN _parse_global_panel(data, fov1, panel, time_res, channels)
                  ELSE _parse_df_panel(fov1, panel, time_res, channels)
    IN IF parsed.raised THEN parsed
       ELSE Return(_parse_intensities(parsed.val, intensities))

-----------------------------------------------------------------------------
(* type_utils *)

\* make_iterable(a): a list stays, a bool becomes [a]
make_iterable(a) == IF a.type = "list" THEN a.names ELSE <<a.flag>>

\* any(make_iterable(a)): a name counts as true when it is not the empty string
any_true(a) ==
    IF a.type = "list" THEN \E i \in DOMAIN make_iterable(a) : make_iterable(a)[i] # ""
    ELSE make_iterable(a)[1]

-----------------------------------------------------------------------------
(* _extract_bin: the native extractor.  A bin file is a sequence of pulse    *)
(* events [tof, intensity, width] of one pixel; an image layer holds one     *)
(* value per channel.                                                        *)

RECURSIVE SumSeq(_)
SumSeq(s) == IF s = <<>> THEN 0 ELSE s[1] + SumSeq(Tail(s))

\* the events whose time of flight lies in the window, in file order
InWindow(events, lo, hi) ==
    SelectIdx(events, LAMBDA k : lo <= events[k].tof /\ events[k].tof <= hi, 1)

\* _extract_bin.c_extract_bin(bin, lower_tof_range, upper_tof_range, calc_intensity):
\* array [layer, channel] with the pulse-count layer, and the intensity and
\* intensity * width layers when a flag is set
c_extract_bin(events, lower, upper, flags) ==
    LET hits(j) == InWindow(events, lower[j], upper[j])
        pulse == [j \in DOMAIN lower |-> Len(hits(j))]
        inten == [j \in DOMAIN lower |->
                     IF flags[j] THEN SumSeq([k \in DOMAIN hits(j) |-> hits(j)[k].intensity])
                     ELSE 0]
        width == [j \in DOMAIN lower |->
                     IF flags[j]
                     THEN SumSeq([k \in DOMAIN hits(j) |->
                                     hits(j)[k].intensity * hits(j)[k].width])
                     ELSE 0]
    IN IF \E j \in DOMAIN flags : flags[j] THEN <<pulse, inten, width>> ELSE <<pulse>>

\* _extract_bin.c_total_counts(bin)
c_total_counts(events) == Len(events)

\* _extract_bin.c_extract_histograms(bin, low, high): the intensity histogram,
\* bin k (from 0) counting the pulses of intensity k in the window
c_extract_histograms(events, lo, hi) ==
    LET hits == InWindow(events, lo, hi)
    IN [k \in 1..MaxHist |->
           Cardinality({e \in DOMAIN hits : hits[e].intensity = k - 1})]

-----------------------------------------------------------------------------
(* condense_img_data, _write_out *)

\* target in intensities
NameIn(target, intensities) == target \in Range(intensities.names)

\* mutant: every channel is replaced by its intensity
condense_img_data_replace_all(img_data, targets, intensities, replace) ==
    IF any_true(intensities) /\ replace
    THEN IF Len(img_data) < 2 THEN Raise("IndexError")
         ELSE Return(<<img_data[2]>>)
    ELSE IF ~any_true(intensities) THEN Return(<<img_data[1]>>)
    ELSE IF Len(img_data) < 2 THEN Raise("IndexError")
    ELSE Return(<<img_data[1], img_data[2]>>)

condense_img_data(img_data, targets, intensities, replace) ==
    IF any_true(intensities) /\ replace
    THEN \* target in <bool> is a TypeError
         IF intensities.type = "bool" /\ targets # <<>> THEN Raise("TypeError")
         ELSE IF Len(img_data) < 2
                 /\ \E j \in DOMAIN targets : NameIn(targets[j], intensities)
              THEN Raise("IndexError")
         ELSE Return(<<[j \in DOMAIN targets |->
                          IF NameIn(targets[j], intensities) THEN img_data[2][j]
                          ELSE img_data[1][j]]>>)
    ELSE IF ~any_true(intensities) THEN Return(<<img_data[1]>>)
    ELSE IF Len(img_data) < 2 THEN Raise("IndexError")
    ELSE Return(<<img_data[1], img_data[2]>>)

\* paths below out_dir
Dir(fov_name, sub) == [kind |-> "dir", fov |-> fov_name, sub |-> sub]
Tiff(fov_name, sub, target, suffix) ==
    [kind |-> "file", fov |-> fov_name, sub |-> sub, target |-> target, suffix |-> suffix]

\* _write_out: the tree after the call, and the exception it ended with, if any
_write_out(tree, img_data, fov_name, targets, intensities) ==
    LET pulses == tree \cup {Dir(fov_name, "")}
                       \cup {Tiff(fov_name, "", targets[j], "") : j \in DOMAIN targets}
        madeDir == pulses \cup {Dir(fov_name, "intensities")}
    IN IF Len(img_data) < 2 THEN [tree |-> pulses, raised |-> FALSE]
       \* list(<bool>) is a TypeError
       ELSE IF intensities.type = "bool"
            THEN IF targets = <<>> THEN [tree |-> madeDir, raised |-> FALSE]
                 ELSE [tree |-> madeDir, raised |-> TRUE, exc |-> "TypeError"]
       ELSE [tree |-> madeDir \cup
                      {Tiff(fov_name, "intensities", targets[j], "_intensity") :
                          j \in {k \in DOMAIN targets : NameIn(targets[k], intensities)}},
             raised |-> FALSE]

-----------------------------------------------------------------------------
(* Inputs *)

Bases == {"fov1", "fov2", "fov3"}
IncludeNames == Bases \cup {"fov_fake"}
Exts == {"bin", "json"}
AllFiles == {File(b, e) : b \in Bases, e \in Exts}

Orders(S) == {o \in [1..Cardinality(S) -> S] : Range(o) = S}

Includes == {None} \cup {Some(s) : s \in BSeq(IncludeNames, MaxInclude)}

NoMeta == [b \in {} |-> 0]

-----------------------------------------------------------------------------
(* Calls of _find_bin_files on any directory *)

InitFind ==
    /\ pc = "start"
    /\ dataDir \in SUBSET AllFiles
    /\ dirOrder \in Orders(Bases)
    /\ jsonMeta = NoMeta
    /\ binData = NoMeta
    /\ call \in {[fn |-> "_find_bin_files", include_fovs |-> inc] : inc \in Includes}
    /\ loc = <<>>
    /\ ret = <<>>
    /\ outTree = {}

CallFind ==
    /\ pc = "start"
    /\ call.fn = "_find_bin_files"
    /\ ret' = _find_bin_files(dataDir, dirOrder, call.include_fovs)
    /\ pc' = "done"
    /\ UNCHANGED <<dataDir, dirOrder, jsonMeta, binData, call, loc, outTree>>

NextFind == CallFind

SpecFind == InitFind /\ [][NextFind]_vars

\* base names with both a .bin and a .json file in the directory
ValidPairs == {b \in Bases : File(b, "bin") \in dataDir /\ File(b, "json") \in dataDir}

\* the valid pairs the call asks for
Requested ==
    IF call.include_fovs.given THEN ValidPairs \cap Range(call.include_fovs.val)
    ELSE ValidPairs

FoundNames == {ret.val[i].name : i \in DOMAIN ret.val}

FindDone == pc = "done" /\ call.fn = "_find_bin_files"

\* C1: _find_bin_files returns exactly the base names that have both a .bin and a
\* .json file, intersected with include_fovs when given; requested names without a
\* valid pair are dropped without error as long as one requested name is valid.
C1_FindReturnsValidPairs ==
    FindDone =>
        /\ (Requested # {} => ~ret.raised)
        /\ (~ret.raised =>
               /\ FoundNames = Requested
               /\ \A i \in DOMAIN ret.val :
                      ret.val[i] = [name |-> ret.val[i].name,
                                    bin |-> File(ret.val[i].name, "bin"),
                                    json |-> File(ret.val[i].name, "json")])

\* an include list with a valid and an invalid name returned the valid one
C1_Witness ==
    /\ FindDone
    /\ call.include_fovs.given
    /\ ~ret.raised
    /\ Range(call.include_fovs.val) \ ValidPairs # {}
    /\ \E b \in Bases : File(b, "bin") \in dataDir /\ File(b, "json") \notin dataDir
                        /\ b \in Range(call.include_fovs.val)
    /\ FoundNames = Requested

\* C2: _find_bin_files raises FileNotFoundError exactly when the final result set
\* is empty, and otherwise returns a non-empty map.
C2_FindRaisesIffEmpty ==
    FindDone =>
        /\ (ret.raised <=> Requested = {})
        /\ (ret.raised => ret.exc = "FileNotFoundError")
        /\ (~ret.raised => Len(ret.val) > 0)

\* a directory with valid pairs, none of them requested: the call raised
C2_Witness ==
    /\ FindDone
    /\ ValidPairs # {}
    /\ call.include_fovs.given
    /\ Requested = {}
    /\ ret.raised

-----------------------------------------------------------------------------
(* Calls of _fill_fov_metadata on one acquisition *)

ChannelNames == {"SMA", "HH3", "XYZ"}

Conjugate(m, t) == [mass |-> m, target |-> t]
PanelRow(m, t, lo, hi) == [Mass |-> m, Target |-> t, Start |-> lo, Stop |-> hi]

JsonPanels ==
    {None,
     Some(<<Conjugate(4, "SMA")>>),
     Some(<<Conjugate(4, "SMA"), Conjugate(9, "HH3")>>)}

Calibration(g, o, p) == [mass_gain |-> g, mass_offset |-> o, panel |-> p]

RequiredCols == {"Mass", "Target", "Start", "Stop"}

ColSets ==
    {RequiredCols, RequiredCols \cup {"Comment"}, {"isotope", "antibody", "start", "stop"}}
    \cup {RequiredCols \ {c} : c \in RequiredCols}

RowSets ==
    {<<PanelRow(4, "SMA", 3, 4)>>,
     <<PanelRow(4, "SMA", 3, 4), PanelRow(9, "HH3", 8, 9)>>}

GlobalPanel(lo, hi) == [type |-> "tuple", lo |-> lo, hi |-> hi]
TablePanel(cols, rows) == [type |-> "df", cols |-> cols, rows |-> rows]

Panels ==
    {GlobalPanel(-1, 0), GlobalPanel(-1, 1)}
    \cup {TablePanel(c, r) : c \in ColSets, r \in RowSets}

Bool(b) == [type |-> "bool", flag |-> b]
List(l) == [type |-> "list", names |-> l]

IntensitySpecs == {Bool(FALSE), Bool(TRUE)} \cup {List(l) : l \in BSeq(ChannelNames, MaxNames)}

ChannelFilters == {None} \cup {Some(l) : l \in BSeq(ChannelNames, MaxNames)}

TimeRes(n, d) == [num |-> n, den |-> d]

InitMeta ==
    /\ pc = "start"
    /\ dataDir = {File("fov1", "bin"), File("fov1", "json")}
    /\ dirOrder = <<"fov1">>
    /\ jsonMeta \in {[b \in {"fov1"} |-> Calibration(1, 0, p)] : p \in JsonPanels}
    /\ binData = NoMeta
    /\ call \in {[fn |-> "_fill_fov_metadata", fov |-> FovEntry("fov1"), panel |-> p,
                  intensities |-> ints, time_res |-> TimeRes(1, 1), channels |-> ch] :
                    p \in Panels, ints \in IntensitySpecs, ch \in ChannelFilters}
    /\ loc = <<>>
    /\ ret = <<>>
    /\ outTree = {}

CallFill ==
    /\ pc = "start"
    /\ call.fn = "_fill_fov_metadata"
    /\ ret' = _fill_fov_metadata(jsonMeta, call.fov, call.panel, call.intensities,
                                 call.time_res, call.channels)
    /\ pc' = "done"
    /\ UNCHANGED <<dataDir, dirOrder, jsonMeta, binData, call, loc, outTree>>

NextMeta == CallFill

SpecMeta == InitMeta /\ [][NextMeta]_vars

FillDone == pc = "done" /\ call.fn = "_fill_fov_metadata"

\* C3: in global-panel mode, an acquisition whose metadata has no panel table
\* fails with a KeyError for every channel filter and intensity spec; no channel
\* list, empty or not, comes out.
C3_GlobalPanelMissingRaises ==
    (FillDone /\ call.panel.type = "tuple" /\ ~jsonMeta["fov1"].panel.given)
        => (ret.raised /\ ret.exc = "KeyError")

C3_Witness ==
    /\ FillDone
    /\ call.panel.type = "tuple"
    /\ ~jsonMeta["fov1"].panel.given
    /\ call.channels.given
    /\ IsList(call.intensities)
    /\ ret.raised

\* C4: in explicit-panel mode, a table lacking any of the columns Mass, Target,
\* Start, Stop fails with a KeyError for every channel filter and intensity spec,
\* whether or not the metadata has a panel table of its own.
C4_BadPanelColumnsRaise ==
    (FillDone /\ call.panel.type = "df" /\ ~(RequiredCols \subseteq call.panel.cols))
        => (ret.raised /\ ret.exc = "KeyError")

C4_Witness ==
    /\ FillDone
    /\ call.panel = TablePanel({"isotope", "antibody", "start", "stop"},
                               <<PanelRow(4, "SMA", 3, 4)>>)
    /\ jsonMeta["fov1"].panel.given
    /\ call.channels = Some(<<"SMA">>)
    /\ ret.raised

\* C5: calc_intensity has one flag per resolved channel, in channel order: all
\* false for False, all true for True, and for a name list true exactly at the
\* channels named in it; names that are no resolved channel are ignored.
C5_IntensityFlags ==
    (FillDone /\ ~ret.raised) =>
        /\ DOMAIN ret.val.calc_intensity = DOMAIN ret.val.targets
        /\ \A i \in DOMAIN ret.val.targets :
              ret.val.calc_intensity[i] =
                  CASE call.intensities = Bool(FALSE) -> FALSE
                    [] call.intensities = Bool(TRUE) -> TRUE
                    [] OTHER -> ret.val.targets[i] \in Range(call.intensities.names)

\* ['SMA', 'XYZ'] against the channels ['SMA', 'HH3'] gave [true, false]
C5_Witness ==
    /\ FillDone
    /\ ~ret.raised
    /\ call.intensities = List(<<"SMA", "XYZ">>)
    /\ ret.val.targets = <<"SMA", "HH3">>
    /\ ret.val.calc_intensity = <<TRUE, FALSE>>

\* the panel entries of the call, as (mass, name) pairs in panel order
PanelEntries ==
    IF call.panel.type = "tuple"
    THEN jsonMeta[call.fov.json.base].panel.val
    ELSE [i \in DOMAIN call.panel.rows |->
             Conjugate(call.panel.rows[i].Mass, call.panel.rows[i].Target)]

\* the panel can be read: the json has a panel (global mode), the table has the
\* four required columns (table mode)
PanelReadable ==
    IF call.panel.type = "tuple" THEN jsonMeta[call.fov.json.base].panel.given
    ELSE RequiredCols \subseteq call.panel.cols

\* the entries the filter keeps, in panel order
ExpectedChannels ==
    SelectIdx(PanelEntries,
              LAMBDA i : ~call.channels.given
                         \/ PanelEntries[i].target \in Range(call.channels.val), 1)

\* C13: in both panel modes and for every channel filter, the resolved channels
\* are exactly the panel entries whose name is in the filter (all of them when
\* the filter is None), in panel order, also when the filter matches no entry;
\* targets, masses, lower_tof_range, upper_tof_range and calc_intensity have one
\* element per resolved channel in that order.
C13_ChannelsFollowFilter ==
    (FillDone /\ PanelReadable) =>
        /\ ~ret.raised
        /\ ret.val.targets = [i \in DOMAIN ExpectedChannels |-> ExpectedChannels[i].target]
        /\ ret.val.masses = [i \in DOMAIN ExpectedChannels |-> ExpectedChannels[i].mass]
        /\ DOMAIN ret.val.lower_tof_range = DOMAIN ExpectedChannels
        /\ DOMAIN ret.val.upper_tof_range = DOMAIN ExpectedChannels
        /\ DOMAIN ret.val.calc_intensity = DOMAIN ExpectedChannels

-----------------------------------------------------------------------------
(* Calls of _set_tof_ranges on valid mass windows *)

Gains == {1, 2}
Offsets == {0, 65534}
TimeResolutions == {TimeRes(1, 1), TimeRes(1, 2), TimeRes(2, 1)}

\* a valid mass window: 0 <= lower <= upper
Windows == {w \in (0..MaxMass) \X (0..MaxMass) : w[1] <= w[2]}

InitTof ==
    /\ pc = "start"
    /\ dataDir = {}
    /\ dirOrder = <<>>
    /\ jsonMeta = NoMeta
    /\ binData = NoMeta
    /\ call \in {[fn |-> "_set_tof_ranges",
                  fov |-> [mass_gain |-> g, mass_offset |-> o],
                  higher |-> <<w[2]>>, lower |-> <<w[1]>>, time_res |-> tr] :
                    g \in Gains, o \in Offsets, w \in Windows, tr \in TimeResolutions}
    /\ loc = <<>>
    /\ ret = <<>>
    /\ outTree = {}

CallSetTof ==
    /\ pc = "start"
    /\ call.fn = "_set_tof_ranges"
    /\ ret' = Return(_set_tof_ranges(call.fov, call.higher, call.lower, call.time_res))
    /\ pc' = "done"
    /\ UNCHANGED <<dataDir, dirOrder, jsonMeta, binData, call, loc, outTree>>

NextTof == CallSetTof

SpecTof == InitTof /\ [][NextTof]_vars

TofDone == pc = "done" /\ call.fn = "_set_tof_ranges"

\* C6: for every channel i and every valid mass window, with any calibration and
\* time resolution, the stored bounds satisfy lower_tof_range[i] <=
\* upper_tof_range[i], also after the cast to unsigned 16-bit integers.
C6_TofBoundsOrdered ==
    TofDone =>
        \A i \in DOMAIN ret.val.lower_tof_range :
            ret.val.lower_tof_range[i] <= ret.val.upper_tof_range[i]

-----------------------------------------------------------------------------
(* extract_bin_files on a directory of up to two acquisitions *)

PipeBases == {"fov1", "fov2"}

Event(t, i, w) == [tof |-> t, intensity |-> i, width |-> w]

\* the pulse events of each bin file
PipeEvents ==
    [b \in PipeBases |->
        IF b = "fov1" THEN <<Event(2, 5, 1), Event(3, 7, 2)>>
        ELSE <<Event(2, 3, 1), Event(4, 6, 1), Event(4, 2, 2)>>]

PipeJsonPanels ==
    {None,
     Some(<<Conjugate(4, "SMA"), Conjugate(9, "HH3")>>),
     Some(<<Conjugate(4, "SMA"), Conjugate(16, "Au")>>)}

PipePanels ==
    {GlobalPanel(-1, 0),
     TablePanel(RequiredCols, <<PanelRow(4, "SMA", 3, 4), PanelRow(9, "HH3", 8, 9)>>),
     TablePanel({"isotope", "antibody", "start", "stop"}, <<PanelRow(4, "SMA", 3, 4)>>)}

PipeIntensities ==
    {Bool(FALSE), Bool(TRUE), List(<<>>), List(<<"SMA">>), List(<<"XYZ">>)}

PipeIncludes ==
    {None, Some(<<"fov1">>), Some(<<"fov2", "fov1">>), Some(<<"fov_fake">>)}

\* the locals of extract_bin_files before its first statement
NoLocals(intensities) ==
    [fov_files |-> <<>>, k |-> 0, intensities |-> intensities, image_data |-> <<>>,
     native_calls |-> <<>>, condensed |-> None]

Init ==
    /\ pc = "start"
    /\ dataDir \in SUBSET {File(b, e) : b \in PipeBases, e \in Exts}
    /\ dirOrder \in Orders(PipeBases)
    /\ jsonMeta \in [{b \in PipeBases : File(b, "json") \in dataDir} ->
                        {Calibration(1, 0, p) : p \in PipeJsonPanels}]
    /\ binData = [b \in {b \in PipeBases : File(b, "bin") \in dataDir} |-> PipeEvents[b]]
    /\ call \in {[fn |-> "extract_bin_files", out_dir |-> out, include_fovs |-> inc,
                  panel |-> p, intensities |-> ints, replace |-> rep,
                  time_res |-> TimeRes(1, 1)] :
                    out \in {None, Some("out")}, inc \in PipeIncludes, p \in PipePanels,
                    ints \in PipeIntensities, rep \in BOOLEAN}
    /\ loc = NoLocals(call.intensities)
    /\ ret = <<>>
    /\ outTree = {}

\* fov_files = _find_bin_files(data_dir, include_fovs)
Locate ==
    /\ pc = "start"
    /\ call.fn = "extract_bin_files"
    /\ LET found == _find_bin_files(dataDir, dirOrder, call.include_fovs)
       IN IF found.raised
          THEN /\ ret' = found
               /\ pc' = "done"
               /\ loc' = loc
          ELSE /\ loc' = [loc EXCEPT !.fov_files = found.val, !.k = 1]
               /\ pc' = "resolve"
               /\ ret' = ret
    /\ UNCHANGED <<dataDir, dirOrder, jsonMeta, binData, call, outTree>>

\* a resolution loop that, when a later acquisition fails, goes on to extract the
\* acquisitions resolved so far
resolve_keep_resolved_prefix ==
    /\ pc = "resolve"
    /\ LET filled == _fill_fov_metadata(jsonMeta, loc.fov_files[loc.k], call.panel,
                                        call.intensities, call.time_res, None)
       IN IF filled.raised /\ loc.k = 1
          THEN /\ ret' = filled
               /\ pc' = "done"
               /\ loc' = loc
          ELSE IF filled.raised
          THEN /\ loc' = [loc EXCEPT !.fov_files = SubSeq(@, 1, loc.k - 1), !.k = 1]
               /\ pc' = "extract"
               /\ ret' = ret
          ELSE /\ loc' = [loc EXCEPT !.fov_files[loc.k] = filled.val,
                                     !.k = IF loc.k = Len(loc.fov_files) THEN 1 ELSE loc.k + 1]
               /\ pc' = IF loc.k = Len(loc.fov_files) THEN "extract" ELSE "resolve"
               /\ ret' = ret
    /\ UNCHANGED <<dataDir, dirOrder, jsonMeta, binData, call, outTree>>

\* one turn of: for fov in fov_files.values(): _fill_fov_metadata(...)
Resolve ==
    /\ pc = "resolve"
    /\ LET filled == _fill_fov_metadata(jsonMeta, loc.fov_files[loc.k], call.panel,
                                        call.intensities, call.time_res, None)
       IN IF filled.raised
          THEN /\ ret' = filled
               /\ pc' = "done"
               /\ loc' = loc
          ELSE /\ loc' = [loc EXCEPT !.fov_files[loc.k] = filled.val,
                                     !.k = IF loc.k = Len(loc.fov_files) THEN 1 ELSE loc.k + 1]
               /\ pc' = IF loc.k = Len(loc.fov_files) THEN "extract" ELSE "resolve"
               /\ ret' = ret
    /\ UNCHANGED <<dataDir, dirOrder, jsonMeta, binData, call, outTree>>

\* mutant: the labels do not depend on replace
type_list_ignores_replace(intensities, replace) ==
    IF ~any_true(intensities) THEN <<"pulse">> ELSE <<"pulse", "intensities">>

\* the labels of the 'type' dimension
TypeList(intensities, replace) ==
    IF replace \/ ~any_true(intensities) THEN <<"pulse">> ELSE <<"pulse", "intensities">>

\* convert intensities=True to list of all targets
ConvertIntensities(intensities, fov) ==
    IF any_true(intensities) /\ intensities.type # "list" THEN List(fov.targets)
    ELSE intensities

\* xr.DataArray(data=img_data[np.newaxis, :], coords=[...], dims=[...])
DataArray(fov, type_list, img_data) ==
    IF Len(type_list) # Len(img_data) THEN Raise("ValueError")
    ELSE Return([fov |-> fov.bin.base, type |-> type_list, data |-> img_data,
                 channel |-> fov.targets])

\* one turn of: for i, (fov, bf) in enumerate(bin_files): ...
ExtractFov ==
    /\ pc = "extract"
    /\ LET fov == loc.fov_files[loc.k]
           img_data == c_extract_bin(binData[fov.bin.base], fov.lower_tof_range,
                                     fov.upper_tof_range, fov.calc_intensity)
           intensities == ConvertIntensities(loc.intensities, fov)
           condensed == condense_img_data(img_data, fov.targets, intensities, call.replace)
           loc1 == [loc EXCEPT !.intensities = intensities,
                               !.native_calls = Append(@, fov.name),
                               !.condensed = Some([img_data |-> img_data,
                                                   targets |-> fov.targets,
                                                   intensities |-> intensities,
                                                   replace |-> call.replace,
                                                   out |-> condensed])]
           last == loc.k = Len(loc.fov_files)
       IN IF condensed.raised
          THEN /\ ret' = condensed
               /\ pc' = "done"
               /\ loc' = loc1
               /\ outTree' = outTree
          ELSE IF call.out_dir.given
          THEN LET written == _write_out(outTree, condensed.val, fov.bin.base,
                                         fov.targets, intensities)
               IN /\ outTree' = written.tree
                  /\ IF written.raised
                     THEN /\ ret' = Raise(written.exc)
                          /\ pc' = "done"
                          /\ loc' = loc1
                     ELSE /\ ret' = ret
                          /\ pc' = IF last THEN "finish" ELSE "extract"
                          /\ loc' = [loc1 EXCEPT !.k = IF last THEN @ ELSE @ + 1]
          ELSE LET array == DataArray(fov, TypeList(intensities, call.replace),
                                      condensed.val)
               IN /\ outTree' = outTree
                  /\ IF array.raised
                     THEN /\ ret' = array
                          /\ pc' = "done"
                          /\ loc' = loc1
                     ELSE /\ ret' = ret
                          /\ pc' = IF last THEN "finish" ELSE "extract"
                          /\ loc' = [loc1 EXCEPT !.k = IF last THEN @ ELSE @ + 1,
                                                 !.image_data = Append(@, array.val)]
    /\ UNCHANGED <<dataDir, dirOrder, jsonMeta, binData, call>>

\* if out_dir is None: return xr.concat(image_data, dim='fov')
Finish ==
    /\ pc = "finish"
    /\ ret' = IF call.out_dir.given THEN Return(None) ELSE Return(Some(loc.image_data))
    /\ pc' = "done"
    /\ UNCHANGED <<dataDir, dirOrder, jsonMeta, binData, call, loc, outTree>>

Next == Locate \/ Resolve \/ ExtractFov \/ Finish

Spec == Init /\ [][Next]_vars

\* the last call of condense_img_data
Condensed == loc.condensed.val

\* a call of condense_img_data with replace set and a channel asking for intensity
CondensedReplacing ==
    /\ call.fn = "extract_bin_files"
    /\ loc.condensed.given
    /\ Condensed.replace
    /\ Condensed.intensities.type = "list"
    /\ \E j \in DOMAIN Condensed.targets : NameIn(Condensed.targets[j], Condensed.intensities)

C8_OutputLayout ==
    (pc = "done" /\ call.fn = "extract_bin_files" /\ call.out_dir.given /\ ~ret.raised) =>
        \A k \in DOMAIN loc.fov_files :
            LET fov == loc.fov_files[k]
            IN /\ \A j \in DOMAIN fov.targets :
                     /\ Tiff(fov.name, "", fov.targets[j], "") \in outTree
                     /\ Tiff(fov.name, "intensities", fov.targets[j], "_intensity") \in outTree
                            <=> fov.calc_intensity[j]
               /\ Dir(fov.name, "intensities") \in outTree
                      <=> \E j \in DOMAIN fov.calc_intensity : fov.calc_intensity[j]

\* what the locator returns for the call's inputs
Located == _find_bin_files(dataDir, dirOrder, call.include_fovs)

\* the resolution of the k-th located acquisition
Filled(k) ==
    _fill_fov_metadata(jsonMeta, Located.val[k], call.panel, call.intensities,
                       call.time_res, None)

\* the positions of the located acquisitions whose resolution fails
FailingPositions ==
    IF Located.raised THEN {} ELSE {k \in DOMAIN Located.val : Filled(k).raised}

FirstFailing == CHOOSE k \in FailingPositions : \A m \in FailingPositions : k <= m

\* an acquisition that went through _fill_fov_metadata has its channel list
IsResolved(fov) == "targets" \in DOMAIN fov

\* C11: in extract_bin_files every located acquisition is resolved before the
\* first native extraction call; if the resolution of any located acquisition
\* fails, wherever it is in the order, no native extraction is ever invoked,
\* nothing is written, and the call ends with that acquisition's error.
C11_ResolveBeforeExtract ==
    call.fn = "extract_bin_files" =>
        /\ loc.native_calls # <<>> =>
              \A k \in DOMAIN loc.fov_files : IsResolved(loc.fov_files[k])
        /\ FailingPositions # {} =>
              /\ loc.native_calls = <<>>
              /\ outTree = {}
              /\ pc \in {"start", "resolve", "done"}
              /\ pc = "done" => ret = Filled(FirstFailing)

\* the call was aborted by the second of two located acquisitions, the first
\* one having been resolved, with an output directory given
C11_Witness ==
    /\ call.fn = "extract_bin_files"
    /\ pc = "done"
    /\ call.out_dir.given
    /\ Len(loc.fov_files) = 2
    /\ FailingPositions = {2}
    /\ IsResolved(loc.fov_files[1])
    /\ ret.raised
    /\ ret.exc = "KeyError"
    /\ loc.native_calls = <<>>

\* the acquisition of the last native extraction call
ExtractedFov == loc.fov_files[Len(loc.native_calls)]

\* C12: with intensities=True and replace set, for every acquisition of the batch
\* the channels whose pulse-count layer is replaced by the intensity layer are
\* exactly those flagged in that acquisition's own calc_intensity, that is, every
\* resolved channel of that acquisition.
C12_ReplacesOwnFlagged ==
    (/\ call.fn = "extract_bin_files"
     /\ call.intensities = Bool(TRUE)
     /\ call.replace
     /\ loc.condensed.given) =>
        /\ ~Condensed.out.raised
        /\ Len(Condensed.out.val) = 1
        /\ \A j \in DOMAIN ExtractedFov.targets :
              Condensed.out.val[1][j] =
                  IF ExtractedFov.calc_intensity[j] THEN Condensed.img_data[2][j]
                  ELSE Condensed.img_data[1][j]

\* the position of the first occurrence of a name in a list
FirstIndex(names, n) ==
    CHOOSE i \in DOMAIN names : names[i] = n /\ \A m \in 1..(i - 1) : names[m] # n

\* the call returned its labeled array
ArrayReturned ==
    /\ call.fn = "extract_bin_files"
    /\ pc = "done"
    /\ ~call.out_dir.given
    /\ ~ret.raised

\* the labels of the fov dimension of the returned array
FovCoords == [i \in DOMAIN ret.val.val |-> ret.val.val[i].fov]

\* C14: without an output directory the returned array has exactly one entry per
\* located acquisition along the fov dimension, in the order the locator gave
\* them, which is the order of include_fovs when that is given; the order is a
\* function of the call's inputs alone.
C14_ArrayFollowsLocatorOrder ==
    ArrayReturned =>
        /\ FovCoords = [i \in DOMAIN Located.val |-> Located.val[i].name]
        /\ \A i, j \in DOMAIN FovCoords : i # j => FovCoords[i] # FovCoords[j]
        /\ call.include_fovs.given =>
              \A i, j \in DOMAIN FovCoords :
                  i < j => FirstIndex(call.include_fovs.val, FovCoords[i])
                               < FirstIndex(call.include_fovs.val, FovCoords[j])

\* include_fovs = ['fov2', 'fov1'] on a directory listed as fov1, fov2 returned
\* the entries fov2, fov1
C14_Witness ==
    /\ ArrayReturned
    /\ dirOrder = <<"fov1", "fov2">>
    /\ call.include_fovs = Some(<<"fov2", "fov1">>)
    /\ FovCoords = <<"fov2", "fov1">>

\* some channel of the condensed acquisition is named for intensity
ChannelRequested ==
    /\ Condensed.intensities.type = "list"
    /\ \E j \in DOMAIN Condensed.targets : NameIn(Condensed.targets[j], Condensed.intensities)

\* C15: condense_img_data returns only the pulse-count layer whenever no channel
\* requested intensity, whatever replace is, and returns the pulse-count and the
\* intensity layer as two separate, unchanged layers whenever a channel requested
\* intensity and replace is not set.
C15_CondenseKeepsRequestedLayers ==
    (call.fn = "extract_bin_files" /\ loc.condensed.given) =>
        /\ ~ChannelRequested => Condensed.out = Return(<<Condensed.img_data[1]>>)
        /\ (ChannelRequested /\ ~Condensed.replace) =>
              Condensed.out = Return(<<Condensed.img_data[1], Condensed.img_data[2]>>)

\* C16: condensation selects only layers the native extractor produced for the
\* acquisition, for every intensity spec and replace; with a name list matching
\* no resolved channel (all calc_intensity flags false, a stack of the
\* pulse-count layer alone) and replace not set, it raises no IndexError and
\* yields the pulse-count layer.
C16_CondenseSelectsProducedLayers ==
    (call.fn = "extract_bin_files" /\ loc.condensed.given) =>
        /\ ~Condensed.out.raised
        /\ \A i \in DOMAIN Condensed.out.val :
              Len(Condensed.out.val[i]) = Len(Condensed.targets)
        /\ (/\ \A j \in DOMAIN ExtractedFov.calc_intensity : ~ExtractedFov.calc_intensity[j]
            /\ ~call.replace) =>
              Condensed.out.val = <<Condensed.img_data[1]>>

\* a stack was condensed on the in-memory path
CondensedInMemory ==
    /\ call.fn = "extract_bin_files"
    /\ ~call.out_dir.given
    /\ loc.condensed.given
    /\ ~Condensed.out.raised

\* C17: on the in-memory path, for every intensity spec and replace, the number
\* of layer-type labels given to the labeled array equals the number of layers
\* of the condensed stack, so that building the array never fails on a
\* dimension mismatch.
C17_LabelsMatchLayers ==
    /\ CondensedInMemory =>
          Len(TypeList(Condensed.intensities, Condensed.replace)) = Len(Condensed.out.val)
    /\ (call.fn = "extract_bin_files" /\ pc = "done" /\ ret.raised) => ret.exc # "ValueError"
    /\ call.fn = "extract_bin_files" =>
          \A i \in DOMAIN loc.image_data :
              Len(loc.image_data[i].type) = Len(loc.image_data[i].data)

\* a name list without replace gave two labels for two layers, and the array
\* was built
C17_Witness ==
    /\ CondensedInMemory
    /\ Condensed.intensities = List(<<"SMA">>)
    /\ ~Condensed.replace
    /\ Len(Condensed.out.val) = 2
    /\ loc.image_data # <<>>
    /\ loc.image_data[Len(loc.image_data)].type = <<"pulse", "intensities">>

-----------------------------------------------------------------------------
(* get_median_pulse_height, get_total_counts *)

\* np.cumsum(intensities)[k - 1]
CumSum(hist, k) == SumSeq(SubSeq(hist, 1, k))

Abs(x) == IF x < 0 THEN -x ELSE x

\* (np.abs(np.cumsum(h) / h.sum() - 0.5)).argmin(): with a zero sum every
\* quotient is nan and argmin answers the first index
median_height(hist) ==
    LET total == SumSeq(hist)
        dist(k) == Abs(2 * CumSum(hist, k) - total)
    IN IF total = 0 THEN 0
       ELSE (CHOOSE k \in DOMAIN hist :
                /\ \A m \in DOMAIN hist : dist(k) <= dist(m)
                /\ \A m \in 1..(k - 1) : dist(m) > dist(k)) - 1

get_median_pulse_height(dir, order, meta, bins, fov, channel, panel, time_res) ==
    LET found == _find_bin_files(dir, order, Some(<<fov>>))
    IN IF found.raised THEN found
       ELSE
       LET filled == _fill_fov_metadata(meta, found.val[1], panel, Bool(FALSE), time_res,
                                        Some(<<channel>>))
       IN IF filled.raised THEN filled
          \* fov['lower_tof_range'][0] of an empty array
          ELSE IF filled.val.lower_tof_range = <<>> THEN Raise("IndexError")
          ELSE Return(median_height(
                   c_extract_histograms(bins[filled.val.bin.base],
                                        filled.val.lower_tof_range[1],
                                        filled.val.upper_tof_range[1])))

\* mutant: include_fovs is not passed on
get_total_counts_all_fovs(dir, order, bins, include_fovs) ==
    LET fov_files == _find_bin_files(dir, order, None)
    IN IF fov_files.raised THEN fov_files
       ELSE Return([k \in DOMAIN fov_files.val |->
                       [name |-> fov_files.val[k].name,
                        count |-> c_total_counts(bins[fov_files.val[k].bin.base])]])

get_total_counts(dir, order, bins, include_fovs) ==
    LET fov_files == _find_bin_files(dir, order, include_fovs)
    IN IF fov_files.raised THEN fov_files
       ELSE Return([k \in DOMAIN fov_files.val |->
                       [name |-> fov_files.val[k].name,
                        count |-> c_total_counts(bins[fov_files.val[k].bin.base])]])

\* pulse events of the diagnostic calls: times of flight are unsigned 16-bit
DiagEventPool ==
    {Event(2, 0, 1), Event(2, 1, 1), Event(2, MaxHist - 1, 1), Event(0, 1, 1),
     Event(UInt16Size - 1, 1, 1)}

InitDiag ==
    /\ pc = "start"
    /\ dataDir \in SUBSET {File(b, e) : b \in PipeBases, e \in Exts}
    /\ dirOrder \in Orders(PipeBases)
    /\ jsonMeta = [b \in {b \in PipeBases : File(b, "json") \in dataDir} |->
                      Calibration(1, 0, Some(<<Conjugate(4, "SMA"), Conjugate(9, "HH3")>>))]
    /\ binData \in {f \in [{b \in PipeBases : File(b, "bin") \in dataDir} ->
                                BSeq(DiagEventPool, MaxEvents)] :
                      "fov2" \in DOMAIN f => f["fov2"] = <<Event(2, 1, 1), Event(0, 1, 1)>>}
    /\ call \in {[fn |-> "get_median_pulse_height", fov |-> f, channel |-> c, panel |-> p,
                  time_res |-> TimeRes(1, 1)] :
                    f \in {"fov1", "fov_fake"}, c \in {"SMA", "XYZ"},
                    p \in {GlobalPanel(-1, 0),
                           TablePanel(RequiredCols, <<PanelRow(4, "SMA", 3, 4)>>)}}
                \cup {[fn |-> "get_total_counts", include_fovs |-> inc] :
                         inc \in PipeIncludes}
    /\ loc = <<>>
    /\ ret = <<>>
    /\ outTree = {}

CallMedian ==
    /\ pc = "start"
    /\ call.fn = "get_median_pulse_height"
    /\ ret' = get_median_pulse_height(dataDir, dirOrder, jsonMeta, binData, call.fov,
                                      call.channel, call.panel, call.time_res)
    /\ pc' = "done"
    /\ UNCHANGED <<dataDir, dirOrder, jsonMeta, binData, call, loc, outTree>>

CallTotalCounts ==
    /\ pc = "start"
    /\ call.fn = "get_total_counts"
    /\ ret' = get_total_counts(dataDir, dirOrder, binData, call.include_fovs)
    /\ pc' = "done"
    /\ UNCHANGED <<dataDir, dirOrder, jsonMeta, binData, call, loc, outTree>>

NextDiag == CallMedian \/ CallTotalCounts

SpecDiag == InitDiag /\ [][NextDiag]_vars

\* the extraction metadata get_median_pulse_height resolves for its one channel
MedianFov ==
    _fill_fov_metadata(jsonMeta, FovEntry(call.fov), call.panel, Bool(FALSE),
                       call.time_res, Some(<<call.channel>>))

\* the call located the acquisition and resolved the channel, so that the native
\* extractor was asked for the channel's histograms
MedianReached ==
    /\ pc = "done"
    /\ call.fn = "get_median_pulse_height"
    /\ call.fov \in DOMAIN binData
    /\ call.fov \in DOMAIN jsonMeta
    /\ ~MedianFov.raised
    /\ MedianFov.val.targets # <<>>

\* the intensity histogram of the selected channel
MedianHistogram ==
    c_extract_histograms(binData[call.fov], MedianFov.val.lower_tof_range[1],
                         MedianFov.val.upper_tof_range[1])

\* C9: get_median_pulse_height raises whenever the intensity histogram of the
\* selected channel sums to zero, and never returns a bin index then; with a
\* positive sum it returns the smallest bin index minimizing
\* |cumulative_sum/total - 0.5|.
C9_MedianGuardsZeroSum ==
    MedianReached =>
        LET hist == MedianHistogram
            total == SumSeq(hist)
        IN IF total = 0 THEN ret.raised
           ELSE /\ ~ret.raised
                /\ \A m \in DOMAIN hist :
                      Abs(2 * CumSum(hist, ret.val + 1) - total)
                          <= Abs(2 * CumSum(hist, m) - total)
                /\ \A m \in 1..ret.val :
                      Abs(2 * CumSum(hist, m) - total)
                          > Abs(2 * CumSum(hist, ret.val + 1) - total)

TotalDone == pc = "done" /\ call.fn = "get_total_counts"

\* the sum over the pulse-count layer of a direct extraction of fov's bin file
\* with the window [0, 65535] and no intensity
FullWindowCount(fov) ==
    SumSeq(c_extract_bin(binData[fov], <<0>>, <<UInt16Size - 1>>, <<FALSE>>)[1])

\* C10: get_total_counts returns one entry per acquisition that
\* _find_bin_files(data_dir, include_fovs) locates, keyed by its name, whose value
\* is the sum over the pulse-count layer of a direct native extraction with the
\* window [0, 65535] and no intensity.
C10_TotalCountsMatchExtraction ==
    (TotalDone /\ ~ret.raised) =>
        LET located == _find_bin_files(dataDir, dirOrder, call.include_fovs)
        IN /\ ~located.raised
           /\ [k \in DOMAIN ret.val |-> ret.val[k].name]
                  = [k \in DOMAIN located.val |-> located.val[k].name]
           /\ \A k \in DOMAIN ret.val :
                  ret.val[k].count = FullWindowCount(ret.val[k].name)

\* two acquisitions in the directory, one asked for, with pulses at both ends of
\* the time-of-flight range
C10_Witness ==
    /\ TotalDone
    /\ ~ret.raised
    /\ call.include_fovs = Some(<<"fov1">>)
    /\ DOMAIN binData = PipeBases
    /\ DOMAIN jsonMeta = PipeBases
    /\ binData["fov1"] = <<Event(0, 1, 1), Event(UInt16Size - 1, 1, 1), Event(2, 0, 1)>>
    /\ ret.val = <<[name |-> "fov1", count |-> 3]>>

====
